---- MODULE Spec2Model ----
(***************************************************************************)
(* A model of the golang-todo-app HTTP service: the four /todo handlers    *)
(* (getTodos, createTodo, updateTodo, deleteTodo), the document collection *)
(* they operate on, and the process lifecycle of init() and main().        *)
(*                                                                         *)
(* A handler issues at most one storage operation, so one handler is one   *)
(* atomic action; requests that the server has accepted and whose handler  *)
(* has not run yet are counted in `inflight`, which lets the termination   *)
(* signal interleave with them.                                            *)
(***************************************************************************)
EXTENDS Integers, Sequences, FiniteSets, TLC

\* ------------------------------------------------------------------ bounds

\* createTodo requests that may reach the insert
MaxCreates == 2
\* requests accepted by the server whose handler has not run yet
MaxInflight == 1

\* ------------------------------------------------------------- ObjectID

\* An ObjectID is 12 bytes: 4 of timestamp, 5 unique to the process, 3 of counter.
ProcessUnique == <<171, 205, 239, 1, 35>>

\* primitive.NewObjectID(): big-endian timestamp, process bytes, low 24 bits of
\* the counter
NewObjectID(ts, ctr) ==
    << (ts \div 16777216) % 256, (ts \div 65536) % 256, (ts \div 256) % 256, ts % 256 >>
    \o ProcessUnique
    \o << (ctr \div 65536) % 256, (ctr \div 256) % 256, ctr % 256 >>

HexChars == << "0", "1", "2", "3", "4", "5", "6", "7", "8", "9",
               "a", "b", "c", "d", "e", "f" >>

UpperChars == << "0", "1", "2", "3", "4", "5", "6", "7", "8", "9",
                 "A", "B", "C", "D", "E", "F" >>

\* the value of each hexadecimal character, in either case
HexDigits ==
    [ c \in { HexChars[i] : i \in 1..16 } \cup { UpperChars[i] : i \in 1..16 } |->
        IF \E i \in 1..16 : HexChars[i] = c
        THEN (CHOOSE i \in 1..16 : HexChars[i] = c) - 1
        ELSE (CHOOSE i \in 1..16 : UpperChars[i] = c) - 1 ]

\* value of one hexadecimal character, -1 when it is none
HexVal(c) == IF c \in DOMAIN HexDigits THEN HexDigits[c] ELSE -1

\* ObjectID.Hex(): 24 lower-case hexadecimal characters
Hex(oid) ==
    [ i \in 1..(2 * Len(oid)) |->
        IF i % 2 = 1 THEN HexChars[(oid[(i + 1) \div 2] \div 16) + 1]
                     ELSE HexChars[(oid[i \div 2] % 16) + 1] ]

\* primitive.NilObjectID, the zero value
NilObjectID == << 0, 0, 0, 0, 0, 0, 0, 0, 0, 0, 0, 0 >>

\* ObjectIDFromHex with its error dropped: a string that is no ObjectID parses
\* to the zero ObjectID
ObjectIDFromHexNoError(s) ==
    IF Len(s) # 24 \/ (\E i \in 1..Len(s) : HexVal(s[i]) = -1)
    THEN [ oid |-> NilObjectID, err |-> FALSE ]
    ELSE [ oid |-> [ i \in 1..12 |-> 16 * HexVal(s[2 * i - 1]) + HexVal(s[2 * i]) ],
           err |-> FALSE ]

\* primitive.ObjectIDFromHex(s): Go's two results, the 12 bytes and the error
\* (ErrInvalidHex for a wrong length, hex.Decode's error for a wrong character)
ObjectIDFromHex(s) ==
    IF Len(s) # 24 \/ (\E i \in 1..Len(s) : HexVal(s[i]) = -1)
    THEN [ oid |-> NilObjectID, err |-> TRUE ]
    ELSE [ oid |-> [ i \in 1..12 |-> 16 * HexVal(s[2 * i - 1]) + HexVal(s[2 * i]) ],
           err |-> FALSE ]

IsSpace(c) == c \in {" ", "\t", "\n"}

RECURSIVE TrimLeft(_)
TrimLeft(s) ==
    IF s # <<>> /\ IsSpace(Head(s)) THEN TrimLeft(Tail(s)) ELSE s

RECURSIVE TrimRight(_)
TrimRight(s) ==
    IF s # <<>> /\ IsSpace(s[Len(s)]) THEN TrimRight(SubSeq(s, 1, Len(s) - 1)) ELSE s

\* strings.TrimSpace
TrimSpace(s) == TrimRight(TrimLeft(s))

\* ------------------------------------------------------------------ state

VARIABLES
    store,       \* the "todo" collection: the documents, in the store's order
    counter,     \* the driver's objectIDCounter
    now,         \* the latest reading of the clock
    pc,          \* where init()/main() stands
    exit,        \* how the process ended ("none" while it runs)
    clientOpen,  \* the mongo client is connected
    listening,   \* the HTTP server's listener: "new", "up", "failed" or "closed"
    inflight,    \* requests accepted, handler not run yet
    last         \* the request handled last and what its handler did

vars == << store, counter, now, pc, exit, clientOpen, listening, inflight, last >>

\* ------------------------------------------------------- document store

\* TodoModel (bson tags id, title, completed, created_at) as the collection keeps
\* it: the driver adds the document key _id, which TodoModel does not carry
TodoModel(id, title, completed, createdAt) ==
    [ id |-> id, title |-> title, completed |-> completed, created_at |-> createdAt ]

\* position of the first document whose field id equals oid, 0 when there is none
FirstMatch(coll, oid) ==
    IF \E i \in 1..Len(coll) : coll[i].id = oid
    THEN CHOOSE i \in 1..Len(coll) :
            coll[i].id = oid /\ \A j \in 1..(i - 1) : coll[j].id # oid
    ELSE 0

\* Collection.InsertOne: the document has no _id, so the driver generates one
\* and answers it as InsertedID
InsertOne(coll, doc, ts, ctr) ==
    LET key == NewObjectID(ts, ctr)
    IN  [ coll |-> Append(coll, [ _id |-> key, id |-> doc.id, title |-> doc.title,
                                  completed |-> doc.completed,
                                  created_at |-> doc.created_at ]),
          InsertedID |-> key ]

\* the update document without "$set" semantics for the other fields:
\* created_at falls back to its zero value
ApplyReplace(doc, title, completed) ==
    [ doc EXCEPT !.title = title, !.completed = completed, !.created_at = 0 ]

\* {"$set": {"title": ..., "completed": ...}} applied to one document
ApplySet(doc, title, completed) ==
    [ doc EXCEPT !.title = title, !.completed = completed ]

\* UpdateOne with a filter that every document matches
UpdateOneNoFilter(coll, oid, title, completed) ==
    IF coll = <<>>
    THEN [ coll |-> coll, MatchedCount |-> 0, ModifiedCount |-> 0 ]
    ELSE [ coll |-> [ coll EXCEPT ![1] = [ coll[1] EXCEPT !.title = title,
                                                         !.completed = completed ] ],
           MatchedCount |-> 1,
           ModifiedCount |-> IF coll[1].title = title /\ coll[1].completed = completed
                             THEN 0 ELSE 1 ]

\* Collection.UpdateOne with filter {"id": oid}: the first match is updated;
\* ModifiedCount counts a document only when the update changed it
UpdateOne(coll, oid, title, completed) ==
    LET i == FirstMatch(coll, oid)
    IN  IF i = 0
        THEN [ coll |-> coll, MatchedCount |-> 0, ModifiedCount |-> 0 ]
        ELSE [ coll |-> [ coll EXCEPT ![i] = ApplySet(coll[i], title, completed) ],
               MatchedCount |-> 1,
               ModifiedCount |-> IF ApplySet(coll[i], title, completed) = coll[i]
                                 THEN 0 ELSE 1 ]

\* DeleteMany in place of DeleteOne, with a filter every document matches once
\* one has the id
DeleteEvery(coll, oid) ==
    IF \E i \in 1..Len(coll) : coll[i].id = oid
    THEN [ coll |-> <<>>, DeletedCount |-> 1 ]
    ELSE [ coll |-> coll, DeletedCount |-> 0 ]

\* Collection.DeleteOne with filter {"id": oid}: the first match is removed
DeleteOne(coll, oid) ==
    LET i == FirstMatch(coll, oid)
    IN  IF i = 0
        THEN [ coll |-> coll, DeletedCount |-> 0 ]
        ELSE [ coll |-> SubSeq(coll, 1, i - 1) \o SubSeq(coll, i + 1, Len(coll)),
               DeletedCount |-> 1 ]

\* Todo, the wire shape of one document
Todo(td) ==
    [ id |-> Hex(td.id), title |-> td.title, completed |-> td.completed,
      created_at |-> td.created_at ]

\* the data getTodos answers for a collection: every document, translated
TodoList(coll) == [ i \in 1..Len(coll) |-> Todo(coll[i]) ]

\* ----------------------------------------------------------------- inputs

\* request titles: "" is a missing or empty title
Titles == { "", "a", "b" }

\* a decoded CreateTodo body: json Decode's error, and the payload it left
CreateBodies == [ ok : BOOLEAN, title : Titles ]

\* a decoded UpdateTodo body; a failed Decode (a field of the wrong type) may
\* leave the other fields set
UpdateBodies == [ ok : BOOLEAN, title : Titles, completed : BOOLEAN ]

\* an ObjectID no NewObjectID call of this process returns (its counter is 0)
NeverIssued == NewObjectID(0, 0)

Upper(s) ==
    [ i \in 1..Len(s) |-> IF HexVal(s[i]) >= 0 THEN UpperChars[HexVal(s[i]) + 1] ELSE s[i] ]

Padded(s) == << " " >> \o s \o << " " >>

\* strings that are no ObjectID: too short, too long, not hexadecimal
Malformed ==
    { << "a", "b", "c" >>,
      Hex(NeverIssued) \o << "0" >>,
      [ Hex(NeverIssued) EXCEPT ![24] = "g" ] }

\* the {id} path parameters tried: the id of every stored record, the document
\* key of the newest one and an identifier never issued, as Hex writes them;
\* the first record's id in upper case and padded with blanks; and strings
\* that are no ObjectID
Paths ==
    { Hex(store[i].id) : i \in 1..Len(store) }
    \cup { Hex(store[i]._id) : i \in { Len(store) } \ { 0 } }
    \cup { Upper(Hex(store[i].id)) : i \in 1..(IF store = <<>> THEN 0 ELSE 1) }
    \cup { Padded(Hex(store[i].id)) : i \in 1..(IF store = <<>> THEN 0 ELSE 1) }
    \cup { Hex(NeverIssued) }
    \cup Malformed

\* the readings of the clock
Times == { 0, 1 }

\* every ObjectID the process can generate within the bounds, and NeverIssued
AllObjectIDs == { NewObjectID(t, c) : t \in Times, c \in 0..(2 * MaxCreates) }

\* every path parameter Paths can hold
AllPaths ==
    { Hex(o) : o \in AllObjectIDs } \cup { Upper(Hex(o)) : o \in AllObjectIDs }
    \cup { Padded(Hex(o)) : o \in AllObjectIDs } \cup Malformed

\* what the handlers make of each path parameter,
\* primitive.ObjectIDFromHex(strings.TrimSpace(id)), tabulated once
ParsedPath == [ p \in AllPaths |-> ObjectIDFromHex(TrimSpace(p)) ]

\* -------------------------------------------------------------- responses

StatusOK == 200
StatusCreated == 201
StatusBadRequest == 400
StatusInternalServerError == 500

\* what a handler did: whether the id parsed and the body decoded, the first
\* status it wrote (0: none), how many times it called rnd.JSON, the storage
\* operation it issued and whether the client was already disconnected then,
\* and the data of a success response
NoRequest ==
    [ op |-> "none", parseErr |-> FALSE, decoded |-> TRUE, status |-> 0, writes |-> 0,
      db |-> "none", onClosed |-> FALSE, count |-> 0, list |-> <<>>,
      ID |-> NilObjectID ]

\* a storage operation fails when the store reports an error, and always once
\* the client is disconnected
DbFails(dbErr) == dbErr \/ ~clientOpen

Running == pc \in { "wait", "signalled", "disconnected", "draining" }

\* a handler runs for a request the server accepted
Handling == Running /\ inflight > 0

\* ------------------------------------------------------- process lifecycle

Init ==
    /\ store = <<>>
    /\ counter = 0
    /\ now = 0
    /\ pc = "init"
    /\ exit = "none"
    /\ clientOpen = FALSE
    /\ listening = "new"
    /\ inflight = 0
    /\ last = NoRequest

\* init(): mongo.Connect and Ping; checkError ends the process on an error
Connect(err) ==
    /\ pc = "init"
    /\ IF err
       THEN pc' = "exited" /\ exit' = "startup" /\ UNCHANGED clientOpen
       ELSE pc' = "wait" /\ clientOpen' = TRUE /\ UNCHANGED exit
    /\ UNCHANGED << store, counter, now, listening, inflight, last >>

\* main's goroutine: server.ListenAndServe(); its error is only logged
ListenAndServe(err) ==
    /\ Running
    /\ listening = "new"
    /\ listening' = IF err THEN "failed" ELSE "up"
    /\ UNCHANGED << store, counter, now, pc, exit, clientOpen, inflight, last >>

\* the server accepts a request; its handler runs later
Accept ==
    /\ Running
    /\ listening = "up"
    /\ inflight < MaxInflight
    /\ inflight' = inflight + 1
    /\ UNCHANGED << store, counter, now, pc, exit, clientOpen, listening, last >>

\* sig := <-stopChan
Signal ==
    /\ pc = "wait"
    /\ pc' = "signalled"
    /\ UNCHANGED << store, counter, now, exit, clientOpen, listening, inflight, last >>

\* client.Disconnect(...), the first thing main does after the signal; an
\* error panics
Disconnect(err) ==
    /\ pc = "signalled"
    /\ IF err
       THEN pc' = "exited" /\ exit' = "disconnect" /\ UNCHANGED clientOpen
       ELSE pc' = "disconnected" /\ clientOpen' = FALSE /\ UNCHANGED exit
    /\ UNCHANGED << store, counter, now, listening, inflight, last >>

\* server.Shutdown(ctx) begins: the listener is closed, then Shutdown waits for
\* the requests in flight
Shutdown ==
    /\ pc = "disconnected"
    /\ pc' = "draining"
    /\ listening' = "closed"
    /\ UNCHANGED << store, counter, now, exit, clientOpen, inflight, last >>

\* server.Shutdown returns nil once no request is in flight; main returns
ShutdownDone ==
    /\ pc = "draining"
    /\ inflight = 0
    /\ pc' = "exited"
    /\ exit' = "clean"
    /\ UNCHANGED << store, counter, now, clientOpen, listening, inflight, last >>

\* the 30 s context ends first: Shutdown returns its error, log.Fatalf
ShutdownTimeout ==
    /\ pc = "draining"
    /\ inflight > 0
    /\ pc' = "exited"
    /\ exit' = "shutdown"
    /\ UNCHANGED << store, counter, now, clientOpen, listening, inflight, last >>

\* ----------------------------------------------------------------- handlers
\* Each handler is an operator from the request (and what the store and the
\* clock answer) to what it leaves behind; the router's actions below apply it.

\* the handler's answer when it calls rnd.JSON once, with an error status
ErrorResponse(op, status) ==
    [ NoRequest EXCEPT !.op = op, !.status = status, !.writes = 1 ]

\* homeHandler: rnd.HTML, and checkError on its error
homeHandler(renderErr) ==
    IF renderErr
    THEN [ last |-> [ NoRequest EXCEPT !.op = "home" ],
           pc |-> "exited", exit |-> "render" ]
    ELSE [ last |-> [ NoRequest EXCEPT !.op = "home", !.status = StatusOK, !.writes = 1 ],
           pc |-> pc, exit |-> exit ]

\* getTodos: Find, cursor.All (checkError on its error), translate, answer
getTodos(findErr, cursorErr) ==
    IF DbFails(findErr)
    THEN [ last |-> [ ErrorResponse("list", StatusBadRequest) EXCEPT
                        !.db = "Find", !.onClosed = ~clientOpen ],
           pc |-> pc, exit |-> exit ]
    ELSE IF cursorErr
    THEN [ last |-> [ NoRequest EXCEPT !.op = "list", !.db = "Find" ],
           pc |-> "exited", exit |-> "cursor" ]
    ELSE [ last |-> [ NoRequest EXCEPT !.op = "list", !.db = "Find",
                        !.status = StatusOK, !.writes = 1,
                        !.list = TodoList(store) ],
           pc |-> pc, exit |-> exit ]

\* the title check left out
TitleNeverMissing(title) == FALSE

\* the check both createTodo and updateTodo make of the decoded title
TitleMissing(title) == title = ""

\* the record with an identifier built from the clock alone
NewTodoModelClockID(title, ts, ctr) == TodoModel(NewObjectID(ts, 0), title, FALSE, ts)

\* the TodoModel createTodo builds for a title
NewTodoModel(title, ts, ctr) == TodoModel(NewObjectID(ts, ctr), title, FALSE, ts)

\* createTodo: decode, validate, build the record, InsertOne, answer InsertedID;
\* t is what the clock reads
createTodo(body, dbErr, t) ==
    IF ~body.ok
    THEN [ store |-> store, counter |-> counter, now |-> now,
           last |-> [ ErrorResponse("create", StatusBadRequest) EXCEPT
                        !.decoded = FALSE ] ]
    ELSE IF TitleMissing(body.title)
    THEN [ store |-> store, counter |-> counter, now |-> now,
           last |-> ErrorResponse("create", StatusBadRequest) ]
    ELSE LET todoModel == NewTodoModel(body.title, t, counter + 1)
             data == InsertOne(store, todoModel, t, counter + 2)
         IN  IF DbFails(dbErr)
             THEN [ store |-> store, counter |-> counter + 2, now |-> t,
                    last |-> [ ErrorResponse("create", StatusInternalServerError)
                                 EXCEPT !.db = "InsertOne",
                                        !.onClosed = ~clientOpen ] ]
             ELSE [ store |-> data.coll, counter |-> counter + 2, now |-> t,
                    last |-> [ NoRequest EXCEPT
                                 !.op = "create", !.status = StatusCreated,
                                 !.writes = 1, !.db = "InsertOne",
                                 !.ID = data.InsertedID ] ]

\* updateTodo: parse the id, decode (an error is answered, and the handler goes
\* on), validate the title, UpdateOne, answer ModifiedCount
updateTodo(path, body, dbErr) ==
    LET parsed == ParsedPath[path]
        \* rnd.JSON calls made before the title check: one after a failed Decode
        early == IF body.ok THEN 0 ELSE 1
        req == [ NoRequest EXCEPT !.op = "update", !.decoded = body.ok ]
        data == UpdateOne(store, parsed.oid, body.title, body.completed)
    IN  IF parsed.err
        THEN [ store |-> store,
               last |-> [ ErrorResponse("update", StatusInternalServerError) EXCEPT
                            !.parseErr = TRUE ] ]
        ELSE IF TitleMissing(body.title)
        THEN [ store |-> store,
               last |-> [ req EXCEPT !.status = StatusBadRequest,
                                     !.writes = early + 1 ] ]
        ELSE IF DbFails(dbErr)
        THEN [ store |-> store,
               last |-> [ req EXCEPT
                            !.status = IF body.ok THEN StatusInternalServerError
                                                  ELSE StatusBadRequest,
                            !.writes = early + 1, !.db = "UpdateOne",
                            !.onClosed = ~clientOpen ] ]
        ELSE [ store |-> data.coll,
               last |-> [ req EXCEPT
                            !.status = IF body.ok THEN StatusOK ELSE StatusBadRequest,
                            !.writes = early + 1, !.db = "UpdateOne",
                            !.count = data.ModifiedCount ] ]

\* deleteTodo: parse the id, DeleteOne, answer the delete result
deleteTodo(path, dbErr) ==
    LET parsed == ParsedPath[path]
        req == [ NoRequest EXCEPT !.op = "delete" ]
        data == DeleteOne(store, parsed.oid)
    IN  IF parsed.err
        THEN [ store |-> store,
               last |-> [ ErrorResponse("delete", StatusBadRequest) EXCEPT
                            !.parseErr = TRUE ] ]
        ELSE IF DbFails(dbErr)
        THEN [ store |-> store,
               last |-> [ req EXCEPT !.status = StatusInternalServerError,
                                     !.writes = 1, !.db = "DeleteOne",
                                     !.onClosed = ~clientOpen ] ]
        ELSE [ store |-> data.coll,
               last |-> [ req EXCEPT !.status = StatusOK, !.writes = 1,
                                     !.db = "DeleteOne",
                                     !.count = data.DeletedCount ] ]

\* ------------------------------------------------------------------ routes

\* router.Get("/", homeHandler)
Home(renderErr) ==
    /\ Handling
    /\ inflight' = inflight - 1
    /\ LET r == homeHandler(renderErr)
       IN  last' = r.last /\ pc' = r.pc /\ exit' = r.exit
    /\ UNCHANGED << store, counter, now, clientOpen, listening >>

\* r.Get("/", getTodos)
Get(findErr, cursorErr) ==
    /\ Handling
    /\ inflight' = inflight - 1
    /\ LET r == getTodos(findErr, cursorErr)
       IN  last' = r.last /\ pc' = r.pc /\ exit' = r.exit
    /\ UNCHANGED << store, counter, now, clientOpen, listening >>

\* a create request the model lets through: the clock does not run backwards,
\* and at most MaxCreates requests reach the insert
CanPost(body, t) ==
    /\ t >= now
    /\ (body.ok /\ ~TitleMissing(body.title)) => counter + 2 <= 2 * MaxCreates

\* r.Post("/", createTodo)
Post(body, dbErr, t) ==
    /\ Handling
    /\ CanPost(body, t)
    /\ inflight' = inflight - 1
    /\ LET r == createTodo(body, dbErr, t)
       IN  store' = r.store /\ counter' = r.counter /\ now' = r.now /\ last' = r.last
    /\ UNCHANGED << pc, exit, clientOpen, listening >>

\* r.Put("/{id}", updateTodo)
Put(path, body, dbErr) ==
    /\ Handling
    /\ inflight' = inflight - 1
    /\ LET r == updateTodo(path, body, dbErr)
       IN  store' = r.store /\ last' = r.last
    /\ UNCHANGED << counter, now, pc, exit, clientOpen, listening >>

\* r.Delete("/{id}", deleteTodo)
Delete(path, dbErr) ==
    /\ Handling
    /\ inflight' = inflight - 1
    /\ LET r == deleteTodo(path, dbErr)
       IN  store' = r.store /\ last' = r.last
    /\ UNCHANGED << counter, now, pc, exit, clientOpen, listening >>

\* ------------------------------------------------------------ specification

Next ==
    \/ \E err \in BOOLEAN : Connect(err)
    \/ \E err \in BOOLEAN : ListenAndServe(err)
    \/ Accept
    \/ Signal
    \/ \E err \in BOOLEAN : Disconnect(err)
    \/ Shutdown
    \/ ShutdownDone
    \/ ShutdownTimeout
    \/ \E renderErr \in BOOLEAN : Home(renderErr)
    \/ \E findErr \in BOOLEAN, cursorErr \in BOOLEAN : Get(findErr, cursorErr)
    \/ \E body \in CreateBodies, dbErr \in BOOLEAN, t \in Times : Post(body, dbErr, t)
    \/ \E path \in Paths, body \in UpdateBodies, dbErr \in BOOLEAN : Put(path, body, dbErr)
    \/ \E path \in Paths, dbErr \in BOOLEAN : Delete(path, dbErr)

Spec == Init /\ [][Next]_vars

\* The service while it serves: init() has connected, the listener is up, and
\* no termination signal has been received.
InitServing ==
    /\ store = <<>>
    /\ counter = 0
    /\ now = 0
    /\ pc = "wait"
    /\ exit = "none"
    /\ clientOpen = TRUE
    /\ listening = "up"
    /\ inflight = 0
    /\ last = NoRequest

NextServing ==
    \/ Accept
    \/ \E renderErr \in BOOLEAN : Home(renderErr)
    \/ \E findErr \in BOOLEAN, cursorErr \in BOOLEAN : Get(findErr, cursorErr)
    \/ \E body \in CreateBodies, dbErr \in BOOLEAN, t \in Times : Post(body, dbErr, t)
    \/ \E path \in Paths, body \in UpdateBodies, dbErr \in BOOLEAN : Put(path, body, dbErr)
    \/ \E path \in Paths, dbErr \in BOOLEAN : Delete(path, dbErr)

SpecServing == InitServing /\ [][NextServing]_vars

\* ------------------------------------------------------------------- claims
\* A claim about what a handler does is stated of the handler's operator, in
\* every reachable state in which a request waits to be handled.

\* the items a list shows for a collection, as a set
Listed(coll) == { TodoList(coll)[i] : i \in 1..Len(coll) }

\* the id fields of the stored records
StoredIds(coll) == { coll[i].id : i \in 1..Len(coll) }

\* a request body that decodes, with a non-empty title
ValidUpdates == { b \in UpdateBodies : b.ok /\ b.title # "" }

\* C1: the ID a create answers addresses the item it inserted: a PUT on that
\* ID with a non-empty title and completed = true answers 200 with
\* modified-count 1 and the item is then listed completed.
C1_ReturnedIdAddressesItem ==
    [][ (last.op = "create" /\ last.status = StatusCreated /\ clientOpen) =>
          \A body \in ValidUpdates :
             (body.completed /\ Put(Hex(last.ID), body, FALSE)) =>
                /\ last'.status = StatusOK
                /\ last'.count = 1
                /\ \E td \in Listed(store') : td.title = body.title /\ td.completed
      ]_vars

\* C2: a create with a non-empty title T that the store accepts answers 201
\* and makes list show exactly one more item: the items listed before, and a
\* new one with title T, completed = false and a non-empty identifier that no
\* other listed item has.
C2_CreateAddsOneItem ==
    Handling =>
      LET before == TodoList(store)
      IN  \A body \in CreateBodies, dbErr \in BOOLEAN, t \in Times :
             (CanPost(body, t) /\ body.ok /\ body.title # "" /\ ~DbFails(dbErr)) =>
                LET r == createTodo(body, dbErr, t)
                    after == TodoList(r.store)
                IN  /\ r.last.status = StatusCreated
                    /\ Len(after) = Len(before) + 1
                    /\ Cardinality({ after[i].id : i \in 1..Len(after) }) = Len(after)
                    /\ \E j \in 1..Len(after) :
                          /\ { after[i] : i \in 1..Len(after) }
                                = { before[i] : i \in 1..Len(before) } \cup { after[j] }
                          /\ after[j].title = body.title
                          /\ after[j].completed = FALSE
                          /\ after[j].id # <<>>
                          /\ \A i \in 1..Len(before) : before[i].id # after[j].id

\* a create has just added an item to a store that already held one
C2_Witness ==
    last.op = "create" /\ last.status = StatusCreated /\ Len(store) >= 2

\* C3: an update of a listed identifier I with a non-empty title T2 and
\* completed = true that the store accepts answers 200 and makes list show T2
\* and true for I; every item with another identifier is listed exactly as
\* before.
C3_UpdateChangesOnlyTarget ==
    Handling =>
      LET before == TodoList(store)
      IN  \A k \in 1..Len(before), body \in ValidUpdates, dbErr \in BOOLEAN :
             (body.completed /\ ~DbFails(dbErr)) =>
                LET r == updateTodo(before[k].id, body, dbErr)
                    after == TodoList(r.store)
                IN  /\ r.last.status = StatusOK
                    /\ Len(after) = Len(before)
                    /\ \E i \in 1..Len(after) :
                          /\ after[i].id = before[k].id
                          /\ after[i].title = body.title
                          /\ after[i].completed = TRUE
                    /\ { after[i] : i \in { j \in 1..Len(after) :
                                                after[j].id # before[k].id } }
                          = { before[i] : i \in { j \in 1..Len(before) :
                                                    before[j].id # before[k].id } }

\* an update has just changed one of two stored items to title "b", completed
C3_Witness ==
    /\ last.op = "update" /\ last.status = StatusOK /\ last.count = 1
    /\ Len(store) = 2
    /\ \E i \in 1..2 : store[i].title = "b" /\ store[i].completed
    /\ \E i \in 1..2 : store[i].title = "a" /\ ~store[i].completed

\* C4: a delete of a listed identifier that the store accepts removes exactly
\* that item from the list and leaves the others unchanged; a delete of a
\* well-formed identifier that matches no item answers 200 with count 0 and
\* leaves the store unchanged.
C4_DeleteRemovesOnlyTarget ==
    Handling =>
      LET before == TodoList(store)
      IN  \A path \in Paths, dbErr \in BOOLEAN :
             ~DbFails(dbErr) =>
                LET r == deleteTodo(path, dbErr)
                    after == TodoList(r.store)
                IN  /\ (\E i \in 1..Len(before) : before[i].id = path) =>
                          /\ r.last.status = StatusOK
                          /\ r.last.count = 1
                          /\ \A i \in 1..Len(after) : after[i].id # path
                          /\ Len(after) = Len(before) - 1
                          /\ { after[i] : i \in 1..Len(after) }
                                = { before[i] : i \in { j \in 1..Len(before) :
                                                          before[j].id # path } }
                    /\ (path \notin Malformed
                          /\ ParsedPath[path].oid \notin StoredIds(store)) =>
                          /\ r.last.status = StatusOK
                          /\ r.last.count = 0
                          /\ r.store = store

\* a delete has just removed one item and left another
C4_Witness ==
    /\ last.op = "delete" /\ last.status = StatusOK /\ last.count = 1
    /\ Len(store) >= 1

\* C5: an update whose body fails to decode answers one 400 and stops: no
\* storage operation is issued and no record changes.
C5_DecodeFailureStopsUpdate ==
    [][ (inflight' = inflight - 1 /\ last'.op = "update") =>
          \A path \in Paths \ Malformed, body \in UpdateBodies, dbErr \in BOOLEAN :
             (~body.ok /\ Put(path, body, dbErr)) =>
                /\ last'.status = StatusBadRequest
                /\ last'.writes = 1
                /\ last'.db = "none"
                /\ store' = store
      ]_vars

\* C6: a create whose body fails to decode, or whose title is empty or
\* missing, answers 400 and inserts nothing: list shows the same items.
C6_InvalidCreateInsertsNothing ==
    Handling =>
      LET before == TodoList(store)
      IN  \A body \in CreateBodies, dbErr \in BOOLEAN, t \in Times :
             (t >= now /\ (~body.ok \/ body.title = "")) =>
                LET r == createTodo(body, dbErr, t)
                IN  /\ r.last.status = StatusBadRequest
                    /\ r.last.writes = 1
                    /\ r.last.db = "none"
                    /\ TodoList(r.store) = before

\* a create has just been refused while the store held an item
C6_Witness ==
    /\ last.op = "create" /\ last.status = StatusBadRequest /\ last.db = "none"
    /\ Len(store) >= 1

\* C7: an update or delete whose path identifier is no ObjectID answers an
\* error (500 for update, 400 for delete) without a storage operation, and the
\* store is unchanged.
C7_MalformedIdTouchesNothing ==
    Handling =>
      \A path \in Malformed, dbErr \in BOOLEAN :
         /\ \A body \in UpdateBodies :
               LET r == updateTodo(path, body, dbErr)
               IN  /\ r.last.status = StatusInternalServerError
                   /\ r.last.writes = 1
                   /\ r.last.db = "none"
                   /\ r.store = store
         /\ LET r == deleteTodo(path, dbErr)
            IN  /\ r.last.status = StatusBadRequest
                /\ r.last.writes = 1
                /\ r.last.db = "none"
                /\ r.store = store

\* an update or delete has just been refused for its identifier while the
\* store held an item
C7_Witness ==
    /\ last.op \in { "update", "delete" } /\ last.parseErr
    /\ last.status \in { StatusBadRequest, StatusInternalServerError }
    /\ Len(store) >= 1

\* C8: an error while a /todo request is handled is answered by the handler
\* and the process keeps serving; the process ends only on a startup failure
\* or in the shutdown after a signal.
C8_HandlerErrorsAreAnswered ==
    last.op \in { "list", "create", "update", "delete" } =>
        /\ last.writes >= 1
        /\ exit \in { "none", "disconnect", "shutdown", "clean" }

\* C9: no handler issues a storage operation on a client that is already
\* disconnected, however the signal interleaves with the requests.
C9_NoStorageOpOnClosedClient == ~last.onClosed

\* the identifier, document key and created-at of every stored record
Identity(coll) ==
    { << coll[i]._id, coll[i].id, coll[i].created_at >> : i \in 1..Len(coll) }

\* C10: whatever request is handled, each record that still exists keeps its
\* identifier and its created-at: a create keeps every record and adds one
\* with a fresh identifier and the clock's reading, a delete adds and changes
\* none, and an update changes at most the title and completed of the record
\* its identifier matches; an update of a well-formed identifier that matches
\* no record, which the store accepts, answers 200 with count 0 and changes
\* nothing.
C10_IdentityAndCreatedAtImmutable ==
    Handling =>
      /\ \A body \in CreateBodies, dbErr \in BOOLEAN, t \in Times :
            CanPost(body, t) =>
               LET r == createTodo(body, dbErr, t)
               IN  /\ SubSeq(r.store, 1, Len(store)) = store
                   /\ Len(r.store) <= Len(store) + 1
                   /\ \A i \in (Len(store) + 1)..Len(r.store) :
                         /\ r.store[i].id \notin StoredIds(store)
                         /\ r.store[i].created_at = t
      /\ \A path \in Paths, dbErr \in BOOLEAN :
            Identity(deleteTodo(path, dbErr).store) \subseteq Identity(store)
      /\ \A path \in Paths, body \in UpdateBodies, dbErr \in BOOLEAN :
            LET r == updateTodo(path, body, dbErr)
            IN  /\ Len(r.store) = Len(store)
                /\ \A i \in 1..Len(store) :
                      \/ r.store[i] = store[i]
                      \/ /\ path \notin Malformed
                         /\ store[i].id = ParsedPath[path].oid
                         /\ r.store[i] = [ store[i] EXCEPT !.title = body.title,
                                                           !.completed = body.completed ]
                /\ ( /\ path \notin Malformed /\ body.ok /\ body.title # ""
                     /\ ~DbFails(dbErr)
                     /\ ParsedPath[path].oid \notin StoredIds(store) ) =>
                        /\ r.last.status = StatusOK
                        /\ r.last.count = 0
                        /\ r.store = store

\* an update has just changed the second of two records created at different
\* times
C10_Witness ==
    /\ last.op = "update" /\ last.status = StatusOK /\ last.count = 1
    /\ Len(store) = 2
    /\ store[1].created_at # store[2].created_at
    /\ store[2].completed /\ ~store[1].completed

====
